---- MODULE Spec2Model ----
(***************************************************************************)
(* Model of the contract scanner (src/app.py): API-key loading, text       *)
(* extraction, the call to the remote model, de-fencing and JSON parsing   *)
(* of the answer, and the rendering of the report.                         *)
(*                                                                         *)
(* Python strings are sequences of one-character strings, so that len(),   *)
(* str.replace(), str.strip(), json.loads() and the encoding of a report   *)
(* are computed character by character.                                     *)
(***************************************************************************)
EXTENDS Integers, Sequences, FiniteSets, TLC

VARIABLES
    pc,             \* position of the script run
    env_key,        \* os.environ's GOOGLE_API_KEY (Absent or a string)
    secrets_key,    \* st.secrets' GOOGLE_API_KEY (Absent or a string)
    api_key,        \* module-level api_key
    uploaded_file,  \* the file of st.file_uploader, or NoFile
    contract_text,  \* extract_text's result
    response,       \* what requests.post produced in this run
    analysis,       \* analyze_contract's result
    posts,          \* the URLs requests.post was called with in this run
    output,         \* what st.error / st.warning showed in this run
    report,         \* what the report dashboard showed in this run
    fx, fy          \* input and result of the pure-function specifications

vars == <<pc, env_key, secrets_key, api_key, uploaded_file, contract_text,
          response, analysis, posts, output, report, fx, fy>>

-----------------------------------------------------------------------------
(* Python str operations                                                   *)

\* the whitespace characters of the model's alphabet (str.strip, JSON)
WS == {" ", "\n"}

RECURSIVE LStripFrom(_, _)
LStripFrom(s, i) ==
    IF i <= Len(s) /\ s[i] \in WS THEN LStripFrom(s, i + 1) ELSE i

RECURSIVE RStripFrom(_, _)
RStripFrom(s, j) ==
    IF j >= 1 /\ s[j] \in WS THEN RStripFrom(s, j - 1) ELSE j

\* s.strip()
Strip(s) ==
    LET i == LStripFrom(s, 1)
        j == RStripFrom(s, Len(s))
    IN  IF i > j THEN <<>> ELSE SubSeq(s, i, j)

\* s[i:].startswith(pat)
MatchAt(s, pat, i) ==
    /\ i + Len(pat) - 1 <= Len(s)
    /\ \A k \in 1..Len(pat) : s[i + k - 1] = pat[k]

\* s.endswith(pat)
EndsWith(s, pat) ==
    /\ Len(pat) <= Len(s)
    /\ MatchAt(s, pat, Len(s) - Len(pat) + 1)

Min(S) == CHOOSE x \in S : \A y \in S : x <= y

\* s.find(pat, i): the first occurrence at or after i, 0 when there is none
Find(s, pat, i) ==
    LET at == {j \in i..Len(s) : MatchAt(s, pat, j)}
    IN  IF at = {} THEN 0 ELSE Min(at)

\* s.replace(pat, ""): every non-overlapping occurrence, left to right
RECURSIVE RemoveFrom(_, _, _)
RemoveFrom(s, pat, i) ==
    LET j == Find(s, pat, i)
    IN  IF j = 0 THEN SubSeq(s, i, Len(s))
        ELSE SubSeq(s, i, j - 1) \o RemoveFrom(s, pat, j + Len(pat))

RemoveAll(s, pat) == RemoveFrom(s, pat, 1)

\* pat in s
Contains(s, pat) == \E i \in 1..Len(s) : MatchAt(s, pat, i)

\* the concatenation of ss[lo..hi]
RECURSIVE Flatten(_, _, _)
Flatten(ss, lo, hi) ==
    IF lo > hi THEN <<>>
    ELSE IF lo = hi THEN ss[lo]
    ELSE LET mid == (lo + hi) \div 2
         IN  Flatten(ss, lo, mid) \o Flatten(ss, mid + 1, hi)

Concat(ss) == Flatten(ss, 1, Len(ss))

\* c * n
Rep(c, n) == [i \in 1..n |-> c]

-----------------------------------------------------------------------------
(* JSON values: tagged so that values of different Python types compare    *)

JStr(s) == [t |-> "str", v |-> s]
JInt(n) == [t |-> "int", v |-> n]
JArr(a) == [t |-> "arr", v |-> a]
JObj(o) == [t |-> "obj", v |-> o]
JBool(b) == [t |-> "bool", v |-> b]
\* Python's None (JSON null)
JNone == [t |-> "none", v |-> 0]

EmptyDict == [k \in {} |-> JInt(0)]

(* json.loads on the model's alphabet: objects, arrays, strings without    *)
(* escapes, integers, whitespace between tokens.                            *)

Digit == {"0", "1", "2", "3", "4", "5", "6", "7", "8", "9"}

DigitVal(c) ==
    CASE c = "0" -> 0 [] c = "1" -> 1 [] c = "2" -> 2 [] c = "3" -> 3
      [] c = "4" -> 4 [] c = "5" -> 5 [] c = "6" -> 6 [] c = "7" -> 7
      [] c = "8" -> 8 [] c = "9" -> 9

ParseFail == [ok |-> FALSE, v |-> JInt(0), i |-> 0]

ParseOk(val, next) == [ok |-> TRUE, v |-> val, i |-> next]

RECURSIVE SkipWs(_, _)
SkipWs(s, i) == IF i <= Len(s) /\ s[i] \in WS THEN SkipWs(s, i + 1) ELSE i

\* the number of backslashes that end just before position j
RECURSIVE BackslashRun(_, _)
BackslashRun(s, j) ==
    IF j > 1 /\ s[j - 1] = "\\" THEN 1 + BackslashRun(s, j - 1) ELSE 0

\* whether the character at p follows an odd number of backslashes
IsEscaped(s, p) == BackslashRun(s, p) % 2 = 1

\* the characters that s[i+1 .. j-1], the inside of a string literal, stand for
DecodeBody(s, i, j) ==
    Concat([p \in 1..(j - i - 1) |->
              IF IsEscaped(s, i + p)
              THEN <<IF s[i + p] = "n" THEN "\n" ELSE s[i + p]>>
              ELSE IF s[i + p] = "\\" THEN <<>> ELSE <<s[i + p]>>])

\* A string literal whose opening quote is at i: it ends at the first quote
\* that no backslash escapes; the escapes of the model's alphabet are
\* \" \\ and \n, and a raw newline inside the literal is an error.
ParseString(s, i) ==
    LET closers == {j \in (i + 1)..Len(s) : s[j] = "\"" /\ ~IsEscaped(s, j)}
    IN  IF closers = {} THEN ParseFail
        ELSE LET j == Min(closers)
             IN  IF \E q \in (i + 1)..(j - 1) :
                        \/ ~IsEscaped(s, q) /\ s[q] = "\n"
                        \/ IsEscaped(s, q) /\ s[q] \notin {"\"", "\\", "n"}
                 THEN ParseFail
                 ELSE ParseOk(JStr(DecodeBody(s, i, j)), j + 1)

RECURSIVE DigitsEnd(_, _)
DigitsEnd(s, i) ==
    IF i <= Len(s) /\ s[i] \in Digit THEN DigitsEnd(s, i + 1) ELSE i

RECURSIVE DigitsValue(_, _, _)
DigitsValue(s, i, j) ==
    IF j < i THEN 0 ELSE 10 * DigitsValue(s, i, j - 1) + DigitVal(s[j])

ParseNumber(s, i) ==
    LET d == IF s[i] = "-" THEN i + 1 ELSE i
    IN  IF d > Len(s) \/ s[d] \notin Digit THEN ParseFail
        ELSE LET e == IF s[d] = "0" THEN d + 1 ELSE DigitsEnd(s, d)
                 n == DigitsValue(s, d, e - 1)
             IN  ParseOk(JInt(IF s[i] = "-" THEN 0 - n ELSE n), e)

\* a dict built from (key, value) pairs: a repeated key keeps its last value
PairsToDict(ps) ==
    [k \in {ps[n][1] : n \in 1..Len(ps)} |->
        ps[CHOOSE n \in 1..Len(ps) :
              /\ ps[n][1] = k
              /\ \A m \in (n + 1)..Len(ps) : ps[m][1] # k][2]]

RECURSIVE ParseValue(_, _)
RECURSIVE ParseMembers(_, _, _)
RECURSIVE ParseElements(_, _, _)

ParseMembers(s, i0, acc) ==
    LET i == SkipWs(s, i0)
    IN  IF i > Len(s) \/ s[i] # "\"" THEN ParseFail
        ELSE LET k == ParseString(s, i)
             IN  IF ~k.ok THEN ParseFail
                 ELSE LET c == SkipWs(s, k.i)
                      IN  IF c > Len(s) \/ s[c] # ":" THEN ParseFail
                          ELSE LET val == ParseValue(s, c + 1)
                               IN  IF ~val.ok THEN ParseFail
                                   ELSE LET n == SkipWs(s, val.i)
                                            acc2 == Append(acc, <<k.v.v, val.v>>)
                                        IN  IF n > Len(s) THEN ParseFail
                                            ELSE IF s[n] = "," THEN ParseMembers(s, n + 1, acc2)
                                            ELSE IF s[n] = "}" THEN ParseOk(JObj(PairsToDict(acc2)), n + 1)
                                            ELSE ParseFail

ParseElements(s, i0, acc) ==
    LET val == ParseValue(s, i0)
    IN  IF ~val.ok THEN ParseFail
        ELSE LET n == SkipWs(s, val.i)
                 acc2 == Append(acc, val.v)
             IN  IF n > Len(s) THEN ParseFail
                 ELSE IF s[n] = "," THEN ParseElements(s, n + 1, acc2)
                 ELSE IF s[n] = "]" THEN ParseOk(JArr(acc2), n + 1)
                 ELSE ParseFail

ParseValue(s, i0) ==
    LET i == SkipWs(s, i0)
    IN  IF i > Len(s) THEN ParseFail
        ELSE IF s[i] = "{" THEN
            LET j == SkipWs(s, i + 1)
            IN  IF j <= Len(s) /\ s[j] = "}" THEN ParseOk(JObj(EmptyDict), j + 1)
                ELSE ParseMembers(s, i + 1, <<>>)
        ELSE IF s[i] = "[" THEN
            LET j == SkipWs(s, i + 1)
            IN  IF j <= Len(s) /\ s[j] = "]" THEN ParseOk(JArr(<<>>), j + 1)
                ELSE ParseElements(s, i + 1, <<>>)
        ELSE IF s[i] = "\"" THEN ParseString(s, i)
        ELSE IF s[i] = "-" \/ s[i] \in Digit THEN ParseNumber(s, i)
        ELSE IF MatchAt(s, <<"n", "u", "l", "l">>, i) THEN ParseOk(JNone, i + 4)
        ELSE IF MatchAt(s, <<"t", "r", "u", "e">>, i) THEN ParseOk(JBool(TRUE), i + 4)
        ELSE IF MatchAt(s, <<"f", "a", "l", "s", "e">>, i) THEN ParseOk(JBool(FALSE), i + 5)
        ELSE ParseFail

\* json.loads(s): [ok |-> TRUE, v |-> value], or ok = FALSE for JSONDecodeError
json_loads(s) ==
    LET r == ParseValue(s, 1)
    IN  IF r.ok /\ SkipWs(s, r.i) > Len(s)
        THEN [ok |-> TRUE, v |-> r.v]
        ELSE [ok |-> FALSE, v |-> JInt(0)]

-----------------------------------------------------------------------------
(* The JSON encoding of a report, as the prompt asks the model to write it *)

K_summary == <<"s", "u", "m", "m", "a", "r", "y">>
K_contract_type == <<"c", "o", "n", "t", "r", "a", "c", "t", "_", "t", "y", "p", "e">>
K_risk_score == <<"r", "i", "s", "k", "_", "s", "c", "o", "r", "e">>
K_parties == <<"p", "a", "r", "t", "i", "e", "s">>
K_duration == <<"d", "u", "r", "a", "t", "i", "o", "n">>
K_critical_alerts == <<"c", "r", "i", "t", "i", "c", "a", "l", "_", "a", "l", "e", "r", "t", "s">>
K_clause_text == <<"c", "l", "a", "u", "s", "e", "_", "t", "e", "x", "t">>
K_risk_explanation == <<"r", "i", "s", "k", "_", "e", "x", "p", "l", "a", "n", "a", "t", "i", "o", "n">>
K_severity == <<"s", "e", "v", "e", "r", "i", "t", "y">>
K_legal_term == <<"l", "e", "g", "a", "l", "_", "t", "e", "r", "m">>
K_suggestion == <<"s", "u", "g", "g", "e", "s", "t", "i", "o", "n">>
K_missing_clauses == <<"m", "i", "s", "s", "i", "n", "g", "_", "c", "l", "a", "u", "s", "e", "s">>
K_candidates == <<"c", "a", "n", "d", "i", "d", "a", "t", "e", "s">>
K_content == <<"c", "o", "n", "t", "e", "n", "t">>
K_parts == <<"p", "a", "r", "t", "s">>
K_text == <<"t", "e", "x", "t">>

\* the order of the keys in the prompt's JSON STRUCTURE, then the keys of
\* the endpoint's envelope
KeyOrder ==
    <<K_summary, K_contract_type, K_risk_score, K_parties, K_duration,
      K_critical_alerts, K_clause_text, K_risk_explanation, K_severity,
      K_legal_term, K_suggestion, K_missing_clauses,
      K_candidates, K_content, K_parts, K_text>>

DigitChar(d) ==
    CASE d = 0 -> "0" [] d = 1 -> "1" [] d = 2 -> "2" [] d = 3 -> "3"
      [] d = 4 -> "4" [] d = 5 -> "5" [] d = 6 -> "6" [] d = 7 -> "7"
      [] d = 8 -> "8" [] d = 9 -> "9"

RECURSIVE NatChars(_)
NatChars(n) ==
    IF n < 10 THEN <<DigitChar(n)>>
    ELSE NatChars(n \div 10) \o <<DigitChar(n % 10)>>

IntChars(n) == IF n < 0 THEN <<"-">> \o NatChars(0 - n) ELSE NatChars(n)

\* the characters of a string literal: " \ and newline are escaped
EscapeChars(s) ==
    Concat([p \in 1..Len(s) |->
              IF s[p] = "\"" THEN <<"\\", "\"">>
              ELSE IF s[p] = "\\" THEN <<"\\", "\\">>
              ELSE IF s[p] = "\n" THEN <<"\\", "n">>
              ELSE <<s[p]>>])

\* ", ".join(parts)
JoinCommaSpace(parts) ==
    Concat([p \in 1..Len(parts) |->
              (IF p > 1 THEN <<",", " ">> ELSE <<>>) \o parts[p]])

RECURSIVE json_dumps(_)
json_dumps(x) ==
    CASE x.t = "str" -> <<"\"">> \o EscapeChars(x.v) \o <<"\"">>
      [] x.t = "int" -> IntChars(x.v)
      [] x.t = "none" -> <<"n", "u", "l", "l">>
      [] x.t = "bool" -> IF x.v THEN <<"t", "r", "u", "e">> ELSE <<"f", "a", "l", "s", "e">>
      [] x.t = "arr" ->
            <<"[">> \o JoinCommaSpace([p \in 1..Len(x.v) |-> json_dumps(x.v[p])]) \o <<"]">>
      [] x.t = "obj" ->
            LET keys == SelectSeq(KeyOrder, LAMBDA k : k \in DOMAIN x.v)
            IN  <<"{">>
                \o JoinCommaSpace([p \in 1..Len(keys) |->
                      <<"\"">> \o EscapeChars(keys[p]) \o <<"\"", ":", " ">>
                      \o json_dumps(x.v[keys[p]])])
                \o <<"}">>

-----------------------------------------------------------------------------
(* analyze_contract's cleaning of the model's text (src/app.py line 118)   *)

\* the grave accent (U+0060): a TLA+ string cannot hold it, so the model
\* writes this one character as "^"
BT == "^"

FenceJson == <<BT, BT, BT, "j", "s", "o", "n">>
Fence == <<BT, BT, BT>>

\* a cleaning that strips before it removes the markers
strip_fence_strip_first(raw_text) ==
    RemoveAll(RemoveAll(Strip(raw_text), FenceJson), Fence)

\* the two replace() calls, then strip()
strip_fence(raw_text) ==
    Strip(RemoveAll(RemoveAll(raw_text, FenceJson), Fence))

-----------------------------------------------------------------------------
(* Messages shown to the user: a sequence of strings. A value that is put  *)
(* into a message (a key, a URL, a status, a body) is spliced in character *)
(* by character; a literal of the source is one element.                   *)

Shown(fn, text) == [fn |-> fn, text |-> text]

-----------------------------------------------------------------------------
(* Module level, lines 18-28: the API key                                   *)

Absent == [present |-> FALSE, value |-> <<>>]
Present(s) == [present |-> TRUE, value |-> s]

\* os.environ.get(..., "").strip(); when that is empty, st.secrets[...].strip(),
\* and only a failure of that lookup reaches st.error and st.stop
load_api_key(env, secrets) ==
    LET k == Strip(env.value)
    IN  IF k # <<>> THEN [stop |-> FALSE, key |-> k]
        ELSE IF secrets.present
             THEN [stop |-> FALSE, key |-> Strip(secrets.value)]
             ELSE [stop |-> TRUE, key |-> k]

\* line 27: the Persian sentence of the source, in English
KeyMissingError == Shown("error", <<"API key not found">>)

-----------------------------------------------------------------------------
(* extract_text, lines 62-76                                                *)

DotPdf == <<".", "p", "d", "f">>
DotTxt == <<".", "t", "x", "t">>

\* line 74: the literal has 27 characters
UnsupportedFormatText == Rep("u", 27)

\* line 76: "Error reading file: " and the exception's text
ErrorReadingFile == <<"E", "r", "r", "o", "r", " ", "r", "e", "a", "d", "i", "n", "g", " ", "f", "i", "l", "e", ":", " ">>

\* lines 67-70: every page's text followed by a newline
PagesText(pages) == Concat([p \in 1..Len(pages) |-> pages[p] \o <<"\n">>])

\* A file: its name, whether reading it raises (pypdf on a broken PDF, the
\* utf-8 decoding of a .txt) with the exception's text, the text of its
\* pages (a PDF) and its decoded content (a text file).
extract_text(f) ==
    IF EndsWith(f.name, DotPdf) THEN
        IF f.raises THEN ErrorReadingFile \o f.exc ELSE PagesText(f.pages)
    ELSE IF EndsWith(f.name, DotTxt) THEN
        IF f.raises THEN ErrorReadingFile \o f.exc ELSE f.content
    ELSE UnsupportedFormatText

\* whether extract_text came back with one of its two failure texts
ExtractionFailed(f) ==
    \/ ~EndsWith(f.name, DotPdf) /\ ~EndsWith(f.name, DotTxt)
    \/ f.raises

-----------------------------------------------------------------------------
(* analyze_contract, lines 78-124                                           *)

\* line 84: the f-string's literal part, then the key
UrlLiteral == "[https://generativelanguage.googleapis.com/v1beta/models/gemini-2.5-flash:generateContent?key=](https://generativelanguage.googleapis.com/v1beta/models/gemini-2.5-flash:generateContent?key=)"

Url(key) == <<UrlLiteral>> \o key

Ok(x) == [ok |-> TRUE, v |-> x, exc |-> <<>>]
Raise(text) == [ok |-> FALSE, v |-> JNone, exc |-> text]

\* str() of the exceptions the body of the try can raise
KeyErrorText(key) == <<"'">> \o key \o <<"'">>
IndexErrorText == <<"list index out of range">>
TypeErrorText == <<"TypeError">>
AttributeErrorText == <<"object has no attribute 'replace'">>
\* the decoder's message names the syntax error and its position
JSONDecodeErrorText == <<"JSONDecodeError">>

\* x[key] for a str key
GetItem(x, key) ==
    IF x.t = "obj"
    THEN IF key \in DOMAIN x.v THEN Ok(x.v[key]) ELSE Raise(KeyErrorText(key))
    ELSE Raise(TypeErrorText)

\* x[0]
GetFirst(x) ==
    IF x.t = "arr"
    THEN IF Len(x.v) > 0 THEN Ok(x.v[1]) ELSE Raise(IndexErrorText)
    ELSE IF x.t = "str"
    THEN IF Len(x.v) > 0 THEN Ok(JStr(<<x.v[1]>>)) ELSE Raise(<<"string index out of range">>)
    ELSE IF x.t = "obj" THEN Raise(<<"0">>)
    ELSE Raise(TypeErrorText)

\* json.loads / response.json() as a result or a raised JSONDecodeError
Loads(s) ==
    LET r == json_loads(s)
    IN  IF r.ok THEN Ok(r.v) ELSE Raise(JSONDecodeErrorText)

\* a lookup on what the lookups before it gave, unless one of them raised
ItemOf(r, key) == IF r.ok THEN GetItem(r.v, key) ELSE r
FirstOf(r) == IF r.ok THEN GetFirst(r.v) ELSE r

\* line 115: result['candidates'][0]['content']['parts'][0]['text']
RawText(result) ==
    ItemOf(FirstOf(ItemOf(ItemOf(FirstOf(GetItem(result, K_candidates)),
                                 K_content), K_parts)), K_text)

\* lines 118-120
CleanAndLoad(raw_text) ==
    IF raw_text.t # "str" THEN Raise(AttributeErrorText)
    ELSE Loads(strip_fence(raw_text.v))

RawTextOf(r) == IF r.ok THEN RawText(r.v) ELSE r
CleanAndLoadOf(r) == IF r.ok THEN CleanAndLoad(r.v) ELSE r

\* lines 112-120: the body of the try after the status check
ParseAnswer(text) == CleanAndLoadOf(RawTextOf(Loads(text)))

\* line 107, with the test narrowed to the 5xx codes
IsHttpErrorServerOnly(status_code) == status_code >= 500

\* line 107
IsHttpError(status_code) == status_code # 200

\* line 108
ApiError(status_code, text) ==
    Shown("error", <<"API Error (">> \o IntChars(status_code) \o <<"): ">> \o text)

\* line 123, without the exception's text
AnalysisFailedNoCause(e) == Shown("error", <<"Analysis Failed">>)

\* line 123
AnalysisFailed(e) == Shown("error", <<"Analysis Failed: ">> \o e)

\* What requests.post did: it raised (exc is str(e)), or it returned a
\* response with a status code and a body.
Raised(exc) == [kind |-> "raise", exc |-> exc, status_code |-> 0, text |-> <<>>]
Answered(status_code, text) ==
    [kind |-> "http", exc |-> <<>>, status_code |-> status_code, text |-> text]
NoResponse == [kind |-> "none", exc |-> <<>>, status_code |-> 0, text |-> <<>>]

\* lines 102-124: the returned value and what st.error showed
analyze_contract(o) ==
    IF o.kind = "raise" THEN [ret |-> JNone, shown |-> <<AnalysisFailed(o.exc)>>]
    ELSE IF IsHttpError(o.status_code)
    THEN [ret |-> JNone, shown |-> <<ApiError(o.status_code, o.text)>>]
    ELSE LET r == ParseAnswer(o.text)
         IN  IF r.ok THEN [ret |-> r.v, shown |-> <<>>]
             ELSE [ret |-> JNone, shown |-> <<AnalysisFailed(r.exc)>>]

-----------------------------------------------------------------------------
(* The upload handler, lines 135-181                                        *)

\* line 141, with a bound that lets a one-character text through
InsufficientContentLax(text) == Len(text) < 1

\* line 141
InsufficientContent(text) == Len(text) < 10

\* line 142: the Persian sentence of the source, in English
InsufficientWarning == Shown("warning", <<"not enough text was extracted">>)

\* bool(x)
Truthy(x) ==
    CASE x.t = "none" -> FALSE
      [] x.t = "bool" -> x.v
      [] x.t = "int"  -> x.v # 0
      [] x.t = "str"  -> x.v # <<>>
      [] x.t = "arr"  -> x.v # <<>>
      [] x.t = "obj"  -> DOMAIN x.v # {}

\* d.get(key, default)
Get(d, key, default) == IF key \in DOMAIN d THEN d[key] ELSE default

\* the default of contract_type and duration (lines 155, 157), in English
Unknown == JStr(<<"unknown">>)

NoReport == [shown |-> FALSE]

\* what "for x in v" iterates over; ok = FALSE when v is not iterable
Items(x) ==
    CASE x.t = "arr" -> [ok |-> TRUE, items |-> x.v]
      [] x.t = "str" -> [ok |-> TRUE, items |-> [i \in 1..Len(x.v) |-> JStr(<<x.v[i]>>)]]
      [] x.t = "obj" ->
            LET keys == SelectSeq(KeyOrder, LAMBDA k : k \in DOMAIN x.v)
            IN  [ok |-> TRUE, items |-> [i \in 1..Len(keys) |-> JStr(keys[i])]]
      [] OTHER       -> [ok |-> FALSE, items |-> <<>>]

\* s[:n]
Prefix(s, n) == SubSeq(s, 1, IF Len(s) < n THEN Len(s) ELSE n)

\* lines 166-175: the expanders of the alerts, up to the first one that raises
\* (alert.get on a value that is no dict, [:60] on a value that has no slice)
RECURSIVE RenderAlerts(_, _, _)
RenderAlerts(alerts, i, acc) ==
    IF i > Len(alerts) THEN [crashed |-> FALSE, shown |-> acc]
    ELSE LET alert == alerts[i]
         IN  IF alert.t # "obj" THEN [crashed |-> TRUE, shown |-> acc]
             ELSE LET expl == Get(alert.v, K_risk_explanation, JNone)
                  IN  IF expl.t \notin {"str", "arr"} THEN [crashed |-> TRUE, shown |-> acc]
                      ELSE RenderAlerts(alerts, i + 1, Append(acc,
                             [high       |-> Get(alert.v, K_severity, JNone) = JStr(<<"H", "I", "G", "H">>),
                              title      |-> Prefix(expl.v, 60),
                              clause     |-> Get(alert.v, K_clause_text, JNone),
                              analysis   |-> expl,
                              term       |-> Get(alert.v, K_legal_term, JNone),
                              suggestion |-> Get(alert.v, K_suggestion, JNone)]))

\* line 152
Color(score) == IF score >= 80 THEN "green" ELSE IF score >= 50 THEN "orange" ELSE "red"

\* lines 147-181 for a truthy analysis: what the dashboard shows, and whether
\* the script ended in an uncaught exception on the way
RenderReport(a, text) ==
    IF a.t # "obj" THEN [crashed |-> TRUE, report |-> NoReport]
    ELSE
    LET d      == a.v
        score  == Get(d, K_risk_score, JInt(0))
        alerts == Get(d, K_critical_alerts, JArr(<<>>))
        it     == Items(alerts)
        al     == RenderAlerts(it.items, 1, <<>>)
        miss   == Get(d, K_missing_clauses, JNone)
        mit    == Items(miss)
        missOk == mit.ok /\ \A i \in 1..Len(mit.items) : mit.items[i].t = "str"
        head   == [shown    |-> TRUE,
                   score    |-> score,
                   color    |-> Color(IF score.t = "int" THEN score.v
                                      ELSE IF score.v THEN 1 ELSE 0),
                   type     |-> Get(d, K_contract_type, Unknown),
                   duration |-> Get(d, K_duration, Unknown),
                   summary  |-> Get(d, K_summary, JNone),
                   no_risk  |-> ~Truthy(alerts),
                   alerts   |-> al.shown,
                   missing  |-> JNone,
                   raw      |-> JNone]
    IN  IF score.t \notin {"int", "bool"} THEN [crashed |-> TRUE, report |-> NoReport]
        ELSE IF ~it.ok \/ al.crashed
            THEN [crashed |-> TRUE, report |-> head]
        ELSE IF Truthy(miss) /\ ~missOk
            THEN [crashed |-> TRUE, report |-> head]
        ELSE [crashed |-> FALSE,
              report  |-> [head EXCEPT
                  !.missing = IF Truthy(miss) THEN JStr(JoinCommaSpace([i \in 1..Len(mit.items) |-> mit.items[i].v])) ELSE JNone,
                  !.raw     = JStr(text)]]

-----------------------------------------------------------------------------
(* Inputs                                                                   *)

\* the longest content of an uploaded text file
MaxTextLen == 11

\* empty, whitespace only, and a key with whitespace around it
KeyValues == {<<>>, <<" ">>, <<" ", "K", "\n">>}
KeySources == {Absent} \cup {Present(k) : k \in KeyValues}

NoFile == [name |-> <<>>, raises |-> FALSE, exc |-> <<>>, pages |-> <<>>, content |-> <<>>]

TxtFile(content) ==
    [name |-> <<"c">> \o DotTxt, raises |-> FALSE, exc |-> <<>>, pages |-> <<>>, content |-> content]
PdfFile(pages) ==
    [name |-> <<"c">> \o DotPdf, raises |-> FALSE, exc |-> <<>>, pages |-> pages, content |-> <<>>]
BrokenFile(name, exc) ==
    [name |-> name, raises |-> TRUE, exc |-> exc, pages |-> <<>>, content |-> <<>>]

Files ==
    {TxtFile(Rep("x", n)) : n \in 0..MaxTextLen}
    \cup {PdfFile(p) : p \in {<<>>, <<Rep("x", 8)>>, <<Rep("x", 9)>>,
                             <<Rep("x", 4), Rep("x", 5)>>, Rep(<<>>, 10)}}
    \cup {BrokenFile(<<"c">> \o DotPdf, e) : e \in {<<>>, <<"E", "O", "F">>}}
    \cup {BrokenFile(<<"c">> \o DotTxt, <<"u", "t", "f", "8">>)}
    \* the uploader compares extensions without regard to case; line 65 does not
    \cup {[PdfFile(<<Rep("x", 9)>>) EXCEPT !.name = <<"c", ".", "P", "D", "F">>]}

Obj(pairs) == JObj(PairsToDict(pairs))
Chars_ok == <<"o", "k">>

Alert(pairs) == Obj(pairs)
FullAlert ==
    Alert(<< <<K_clause_text, JStr(<<"c", "l">>)>>,
             <<K_risk_explanation, JStr(<<"w", "h", "y">>)>>,
             <<K_severity, JStr(<<"H", "I", "G", "H">>)>>,
             <<K_legal_term, JStr(<<"t">>)>>,
             <<K_suggestion, JStr(<<"s">>)>> >>)

FullReport(score, summary) ==
    Obj(<< <<K_summary, JStr(summary)>>,
           <<K_contract_type, JStr(<<"E", "j", "a", "r", "e", "h">>)>>,
           <<K_risk_score, JInt(score)>>,
           <<K_parties, JArr(<<JStr(<<"A">>), JStr(<<"B">>)>>)>>,
           <<K_duration, JStr(<<"1", "y">>)>>,
           <<K_critical_alerts, JArr(<<FullAlert>>)>>,
           <<K_missing_clauses, JArr(<<JStr(<<"m">>), JStr(<<"n">>)>>)>> >>)

\* d without the key k
Without(x, k) == JObj([j \in DOMAIN x.v \ {k} |-> x.v[j]])

Scores == {-5, 0, 35, 50, 80, 100, 150}

Reports ==
    {FullReport(sc, Chars_ok) : sc \in Scores}
    \cup {FullReport(35, <<"a", BT, BT, BT, "b">>)}
    \cup {Without(FullReport(35, Chars_ok), k) : k \in {K_summary, K_risk_score, K_critical_alerts}}
    \cup {Obj(<< <<K_contract_type, JStr(<<"E">>)>> >>)}
    \cup {Obj(<< <<K_summary, JStr(Chars_ok)>>, <<K_risk_score, JInt(35)>> >>)}
    \cup {Obj(<< <<K_summary, JStr(Chars_ok)>>, <<K_risk_score, JInt(35)>>,
                 <<K_critical_alerts, JArr(<<Alert(<< <<K_severity, JStr(<<"L", "O", "W">>)>> >>)>>)>> >>)}
    \cup {JObj(EmptyDict)}

Fenced(text) == FenceJson \o <<"\n">> \o text \o <<"\n">> \o Fence

\* the texts the model may answer with
RawTexts ==
    {json_dumps(r) : r \in Reports}
    \cup {Fenced(json_dumps(FullReport(sc, Chars_ok))) : sc \in {35, 150}}
    \cup {<<"o", "k">>, <<"3", "5">>, <<>>}

\* the envelope of section 6 around the model's text
Envelope(raw) ==
    Obj(<< <<K_candidates, JArr(<<
        Obj(<< <<K_content,
            Obj(<< <<K_parts, JArr(<< Obj(<< <<K_text, raw>> >>) >>)>> >>)>> >>) >>)>> >>)

Bodies200 ==
    {json_dumps(Envelope(JStr(raw))) : raw \in RawTexts}
    \cup {json_dumps(e) : e \in {JObj(EmptyDict),
                                Obj(<< <<K_candidates, JArr(<<>>)>> >>),
                                Obj(<< <<K_candidates, JArr(<<JObj(EmptyDict)>>)>> >>),
                                Obj(<< <<K_candidates, JArr(<<Obj(<< <<K_content,
                                        Obj(<< <<K_parts, JArr(<<>>)>> >>)>> >>)>>)>> >>),
                                Envelope(JInt(35))}}
    \cup {<<"<", "h", "t", "m", "l", ">">>}

ErrorBodies ==
    {<<"o", "o", "p", "s">>, json_dumps(Envelope(JStr(json_dumps(FullReport(35, Chars_ok)))))}

\* requests finds no connection adapter for a URL that starts with "[":
\* InvalidSchema, whose text quotes the URL
InvalidSchemaText(url) == <<"No connection adapters were found for '">> \o url \o <<"'">>
ConnectionErrorText == <<"Connection refused">>

\* What requests.post can do: what the library does with the URL of line 84,
\* and what a stubbed transport or endpoint answers.
PostOutcomes(url) ==
    {Raised(InvalidSchemaText(url)), Raised(ConnectionErrorText)}
    \cup {Answered(200, b) : b \in Bodies200}
    \cup {Answered(sc, b) : sc \in {404, 500}, b \in ErrorBodies}

-----------------------------------------------------------------------------
(* The script as a state machine                                            *)

Init ==
    /\ pc = "start"
    /\ env_key \in KeySources
    /\ secrets_key \in KeySources
    /\ api_key = <<>>
    /\ uploaded_file = NoFile
    /\ contract_text = <<>>
    /\ response = NoResponse
    /\ analysis = JNone
    /\ posts = <<>>
    /\ output = <<>>
    /\ report = NoReport
    /\ fx = <<>>
    /\ fy = <<>>

\* lines 21-28
LoadKey ==
    /\ pc = "start"
    /\ LET r == load_api_key(env_key, secrets_key)
       IN  /\ api_key' = r.key
           /\ IF r.stop
              THEN /\ output' = Append(output, KeyMissingError)
                   /\ pc' = "stopped"
              ELSE /\ output' = output
                   /\ pc' = "uploader"
    /\ UNCHANGED <<env_key, secrets_key, uploaded_file, contract_text, response,
                   analysis, posts, report, fx, fy>>

\* lines 133-135: no file is uploaded, the script ends
NoUpload ==
    /\ pc = "uploader"
    /\ pc' = "done"
    /\ UNCHANGED <<env_key, secrets_key, api_key, uploaded_file, contract_text,
                   response, analysis, posts, output, report, fx, fy>>

\* lines 133-138: a file is uploaded and its text extracted
Upload ==
    /\ pc = "uploader"
    /\ \E f \in Files :
        /\ uploaded_file' = f
        /\ contract_text' = extract_text(f)
    /\ pc' = "extracted"
    /\ UNCHANGED <<env_key, secrets_key, api_key, response, analysis, posts,
                   output, report, fx, fy>>

\* lines 141-142
WarnInsufficient ==
    /\ pc = "extracted"
    /\ InsufficientContent(contract_text)
    /\ output' = Append(output, InsufficientWarning)
    /\ pc' = "done"
    /\ UNCHANGED <<env_key, secrets_key, api_key, uploaded_file, contract_text,
                   response, analysis, posts, report, fx, fy>>

\* lines 143-144: analyze_contract, with its one requests.post
Analyze ==
    /\ pc = "extracted"
    /\ ~InsufficientContent(contract_text)
    /\ \E o \in PostOutcomes(Url(api_key)) :
        LET r == analyze_contract(o)
        IN  /\ response' = o
            /\ analysis' = r.ret
            /\ output' = output \o r.shown
    /\ posts' = Append(posts, Url(api_key))
    /\ pc' = "analyzed"
    /\ UNCHANGED <<env_key, secrets_key, api_key, uploaded_file, contract_text,
                   report, fx, fy>>

\* lines 146-181
Render ==
    /\ pc = "analyzed"
    /\ IF Truthy(analysis)
       THEN LET r == RenderReport(analysis, contract_text)
            IN  /\ report' = r.report
                /\ pc' = IF r.crashed THEN "crashed" ELSE "done"
       ELSE /\ report' = report
            /\ pc' = "done"
    /\ UNCHANGED <<env_key, secrets_key, api_key, uploaded_file, contract_text,
                   response, analysis, posts, output, fx, fy>>

\* Streamlit executes the script again from the top
Rerun ==
    /\ pc \in {"done", "crashed", "stopped"}
    /\ pc' = "start"
    /\ api_key' = <<>>
    /\ uploaded_file' = NoFile
    /\ contract_text' = <<>>
    /\ response' = NoResponse
    /\ analysis' = JNone
    /\ output' = <<>>
    /\ report' = NoReport
    /\ posts' = <<>>
    /\ UNCHANGED <<env_key, secrets_key, fx, fy>>

Next ==
    \/ LoadKey
    \/ NoUpload
    \/ Upload
    \/ WarnInsufficient
    \/ Analyze
    \/ Render
    \/ Rerun

Spec == Init /\ [][Next]_vars
-----------------------------------------------------------------------------
(* The cleaning step of line 118 on its own                                 *)

\* the longest input, in pieces
MaxPieces == 5

FencePieces == {<<BT>>, Fence, <<"j", "s", "o", "n">>, <<" ">>, <<"\n">>, <<"a">>}

FenceInputs == {Concat(p) : p \in UNION {[1..n -> FencePieces] : n \in 0..MaxPieces}}

InitFence ==
    /\ pc = "raw"
    /\ fx \in FenceInputs
    /\ fy = <<>>
    /\ env_key = Absent /\ secrets_key = Absent /\ api_key = <<>>
    /\ uploaded_file = NoFile /\ contract_text = <<>>
    /\ response = NoResponse /\ analysis = JNone
    /\ posts = <<>> /\ output = <<>> /\ report = NoReport

\* line 118
CleanRawText ==
    /\ pc = "raw"
    /\ fy' = strip_fence(fx)
    /\ pc' = "clean"
    /\ UNCHANGED <<env_key, secrets_key, api_key, uploaded_file, contract_text,
                   response, analysis, posts, output, report, fx>>

NextFence == CleanRawText

SpecFence == InitFence /\ [][NextFence]_vars

-----------------------------------------------------------------------------
(* A report written as JSON, cleaned and parsed (lines 118-120)             *)

\* the longest summary, in pieces
MaxSummaryPieces == 3

SummaryPieces == {Fence, <<"j", "s", "o", "n">>, <<" ">>, <<"a">>}

RoundTripReports ==
    {FullReport(35, Concat(p)) :
        p \in UNION {[1..n -> SummaryPieces] : n \in 0..MaxSummaryPieces}}

InitRoundTrip ==
    /\ pc = "encoded"
    /\ fx \in RoundTripReports
    /\ fy = [ok |-> FALSE, v |-> JNone]
    /\ env_key = Absent /\ secrets_key = Absent /\ api_key = <<>>
    /\ uploaded_file = NoFile /\ contract_text = <<>>
    /\ response = NoResponse /\ analysis = JNone
    /\ posts = <<>> /\ output = <<>> /\ report = NoReport

\* lines 118-120 on the JSON text of the report fx
ParseModelText ==
    /\ pc = "encoded"
    /\ fy' = json_loads(strip_fence(json_dumps(fx)))
    /\ pc' = "parsed"
    /\ UNCHANGED <<env_key, secrets_key, api_key, uploaded_file, contract_text,
                   response, analysis, posts, output, report, fx>>

NextRoundTrip == ParseModelText

SpecRoundTrip == InitRoundTrip /\ [][NextRoundTrip]_vars

-----------------------------------------------------------------------------
(* The claims                                                               *)

\* this run has gone through the upload handler
Handled == uploaded_file # NoFile /\ pc \in {"analyzed", "done", "crashed"}

\* C1: an upload whose extracted text is shorter than 10 characters ends
\* with the insufficient-content warning and without a call of the remote
\* endpoint; the endpoint is called only for a text of 10 characters or more.
C1_NoCallBelowMinimum ==
    /\ (Handled /\ Len(contract_text) < 10) =>
          /\ pc = "done"
          /\ output = <<InsufficientWarning>>
          /\ posts = <<>> /\ response = NoResponse
          /\ analysis = JNone /\ report = NoReport
    /\ (posts # <<>> \/ response # NoResponse) => Len(contract_text) >= 10

C1_Witness ==
    /\ pc = "done" /\ uploaded_file # NoFile
    /\ Len(contract_text) = 9
    /\ output = <<InsufficientWarning>> /\ posts = <<>>

\* C2: when extract_text fails on the uploaded file (unsupported extension,
\* or an exception while reading), the run makes no call of the remote
\* endpoint and renders no report.
C2_ExtractionFailureHalts ==
    (uploaded_file # NoFile /\ ExtractionFailed(uploaded_file)) =>
        (posts = <<>> /\ report = NoReport)

\* C3: a model answer that parses as a JSON object without "summary" or
\* without "risk_score" is reported as a failure and no report is rendered.
C3_MissingRequiredFieldFails ==
    (/\ pc \in {"done", "crashed"}
     /\ response.kind = "http"
     /\ analysis.t = "obj"
     /\ (K_summary \notin DOMAIN analysis.v \/ K_risk_score \notin DOMAIN analysis.v))
    => (report = NoReport /\ output # <<>>)

\* C4: no message shown to the user contains the API key.
C4_KeyNeverShown ==
    api_key # <<>> =>
        \A i \in 1..Len(output) : ~Contains(output[i].text, api_key)

\* C5: after an answer with a status code other than 200 the run has shown
\* exactly the service error with that status code and the body verbatim,
\* analyze_contract has returned None and no report is rendered.
C5_ServiceErrorKeepsStatusAndBody ==
    (response.kind = "http" /\ response.status_code # 200) =>
        /\ output = <<Shown("error",
                <<"API Error (">> \o IntChars(response.status_code) \o <<"): ">>
                \o response.text)>>
        /\ analysis = JNone
        /\ report = NoReport

\* an error answer whose body would parse as a complete report
C5_Witness ==
    /\ pc = "done"
    /\ response.kind = "http" /\ response.status_code = 500
    /\ ParseAnswer(response.text).ok
    /\ report = NoReport

\* the answer is 200 and its body is an object without "candidates" or with
\* an empty "candidates" list
EmptyCandidates(o) ==
    /\ o.kind = "http" /\ o.status_code = 200
    /\ LET b == json_loads(o.text)
       IN  /\ b.ok /\ b.v.t = "obj"
           /\ \/ K_candidates \notin DOMAIN b.v.v
              \/ b.v.v[K_candidates] = JArr(<<>>)

\* requests.post raised
TransportFailure(o) == o.kind = "raise"

\* the answer is not 200
ServiceFailure(o) == o.kind = "http" /\ o.status_code # 200

\* the answer is 200 and its body, or the model's text in it, is not JSON
MalformedJson(o) ==
    /\ o.kind = "http" /\ o.status_code = 200
    /\ LET raw == RawTextOf(Loads(o.text))
       IN  \/ ~Loads(o.text).ok
           \/ raw.ok /\ raw.v.t = "str" /\ ~json_loads(strip_fence(raw.v.v)).ok

Clamp(n) == IF n < 0 THEN 0 ELSE IF n > 100 THEN 100 ELSE n

\* C7: for an integer risk_score the score of the rendered report is the
\* risk_score clamped to 0..100, and the run ends without an exception.
C7_ScoreClamped ==
    (/\ pc \in {"done", "crashed"}
     /\ analysis.t = "obj"
     /\ K_risk_score \in DOMAIN analysis.v
     /\ analysis.v[K_risk_score].t = "int"
     /\ report.shown)
    => report.score = JInt(Clamp(analysis.v[K_risk_score].v))

\* C8: a report with all its fields, written as JSON, cleaned and parsed,
\* is the report again.
C8_RoundTrip == pc = "parsed" => (fy.ok /\ fy.v = fx)

\* C9: cleaning a cleaned text changes nothing.
C9_Idempotent == pc = "clean" => strip_fence(fy) = fy

\* removing the first marker joined backticks with "json" into a new marker
C9_Witness ==
    /\ pc = "clean"
    /\ Contains(RemoveAll(fx, FenceJson), FenceJson)
    /\ fy # fx

\* C10: the script goes past the loading of the key only with a non-empty
\* key, and never calls the endpoint with an empty one.
C10_NoRunWithoutKey ==
    /\ pc \notin {"start", "stopped"} => api_key # <<>>
    /\ \A i \in 1..Len(posts) : posts[i] # Url(<<>>)
====
